---- MODULE Spec2Model ----
(***************************************************************************)
(* Client session controller of the chat application (the zustand store   *)
(* useAuthStore): authentication requests, the persisted token and the    *)
(* socket the store opens for the authenticated identity.                 *)
(*                                                                         *)
(* An async store method is two steps: the call (everything up to its     *)
(* await) and the completion (everything after it, the finally block      *)
(* included).  Completions of different requests interleave arbitrarily,  *)
(* as do the transport's events and the reconnection timer.               *)
(*                                                                         *)
(* The transport is the socket.io client seen through the four events the *)
(* store subscribes to.  A socket is Connecting from connect() until the  *)
(* "connect" event, Connected until a "disconnect" event or disconnect(), *)
(* and Disconnected after a "connect_error"; the only retry is the timer  *)
(* the store's own connect_error handler sets.  The server's answers to   *)
(* the HTTP requests and the presence messages are unconstrained inputs.  *)
(*                                                                         *)
(* The server's presence registry is a specification of its own,          *)
(* SpecRegistry, over the server's variables; Spec leaves them alone.     *)
(***************************************************************************)
EXTENDS Naturals, Sequences, FiniteSets

\* Bounds of the model.
MaxPending == 2    \* HTTP requests in flight at once
MaxSockets == 2    \* sockets created by io() in one run
MaxConns == 4      \* connections the server accepts in one run

Null == "null"
Users == {"u1", "u2"}
NoMessage == "none"
ServerMessages == {"server message"}
Messages == ServerMessages \cup {NoMessage}      \* error.response?.data?.message
Statuses == {"401", "500", NoMessage}            \* error.response?.status
NewUsers == {"u2"}                               \* the accounts signup creates
Payloads == {{"u1"}, Users}                      \* the presence messages sent

VARIABLES
    authUser,           \* identity of res.data, or Null
    token,              \* localStorage "token": the user it was issued to, or Null
    isSigningUp,
    isLoggingIn,
    isUpdatingProfile,
    isCheckingAuth,
    onlineUsers,        \* the identities of the last presence message
    socket,             \* index into sockets of the store's socket, 0 for null
    sockets,            \* every socket io() has created, in creation order
    pending,            \* HTTP requests in flight; stale: a logout succeeded since
    loggedOut,          \* history: a logout succeeded and no authentication since
    last,               \* history: what ran in the last step and what it reported
    registry,           \* server: identity -> handle of its recorded connection, 0 for none
    conns,              \* server: every connection accepted, in order: identity, open
    sent                \* server: the presence broadcasts sent so far, in order

storeVars == <<authUser, token, isSigningUp, isLoggingIn, isUpdatingProfile,
               isCheckingAuth, onlineUsers, socket, sockets>>
vars == <<authUser, token, isSigningUp, isLoggingIn, isUpdatingProfile,
          isCheckingAuth, onlineUsers, socket, sockets, pending, loggedOut,
          last, registry, conns, sent>>
clientVars == <<authUser, token, isSigningUp, isLoggingIn, isUpdatingProfile,
                isCheckingAuth, onlineUsers, socket, sockets, pending, loggedOut,
                last>>
serverVars == <<registry, conns, sent>>

\* ---------------------------------------------------------------- sockets

\* io(BASE_URL, {query: {userId}, autoConnect: false}) followed by connect()
NewSocket(userId) == [userId |-> userId, state |-> "Connecting", timers |-> 0]

\* socket.connected
Connected(sk, sks) == sk # 0 /\ sks[sk].state = "Connected"

\* socket.connect(): nothing on a connected socket, else a new attempt
SocketConnect(s) ==
    IF s.state = "Connected" THEN s ELSE [s EXCEPT !.state = "Connecting"]

\* mutant: the guard forgets the connected check
ConnectSocketNoopAuthOnly(au, sk, sks) == au = Null

\* the guard of connectSocket
ConnectSocketNoop(au, sk, sks) == au = Null \/ Connected(sk, sks)

\* connectSocket(): the store's socket and the sockets after the call
ConnectSocketResult(au, sk, sks) ==
    IF ConnectSocketNoop(au, sk, sks)
    THEN [socket |-> sk, sockets |-> sks]
    ELSE [socket |-> Len(sks) + 1, sockets |-> Append(sks, NewSocket(au))]

\* mutant: the guard tests the socket, not socket.connected
DisconnectSocketResultAnyState(sk, sks) ==
    IF sk # 0 THEN [sks EXCEPT ![sk].state = "Disconnected"] ELSE sks

\* disconnectSocket(): the sockets after the call
DisconnectSocketResult(sk, sks) ==
    IF Connected(sk, sks) THEN [sks EXCEPT ![sk].state = "Disconnected"] ELSE sks

\* the run may still create the socket connectSocket would open
RoomToConnect(au) ==
    ConnectSocketNoop(au, socket, sockets) \/ Len(sockets) < MaxSockets

\* --------------------------------------------------------------- requests

\* a request in flight: the method and the identity it was sent for
Request(op, user) == [op |-> op, user |-> user, stale |-> FALSE]

\* at most MaxPending requests are in flight, no two of them the same call
Send(op, user) ==
    /\ Cardinality(pending) < MaxPending
    /\ \A q \in pending : q.op # op \/ q.user # user
    /\ pending' = pending \cup {Request(op, user)}

\* the response of r arrives and its continuation runs
Receive(r) == pending' = pending \ {r}

\* what a step reports: the handler, the outcome it saw and the toast it showed
Event(ev, info, toast) == [ev |-> ev, info |-> info, toast |-> toast]

\* a step that reports nothing: a call up to its await, a handler that only logs
Quiet == Event("-", Null, NoMessage)

\* error.response?.data?.message || fallback
ErrorMessage(msg, fallback) == IF msg # NoMessage THEN msg ELSE fallback

Init ==
    /\ authUser = Null
    /\ token \in Users \cup {Null}
    /\ isSigningUp = FALSE
    /\ isLoggingIn = FALSE
    /\ isUpdatingProfile = FALSE
    /\ isCheckingAuth = TRUE
    /\ onlineUsers = {}
    /\ socket = 0
    /\ sockets = << >>
    /\ pending = {}
    /\ loggedOut = FALSE
    /\ last = Quiet
    /\ registry = [u \in Users |-> 0]
    /\ conns = << >>
    /\ sent = << >>

\* ------------------------------------------------------------- checkAuth

CheckAuthCall ==
    /\ Send("checkAuth", Null)
    /\ last' = Quiet
    /\ UNCHANGED <<storeVars, loggedOut>>
    /\ UNCHANGED serverVars

\* try: set({authUser: res.data}); connectSocket()   finally: isCheckingAuth
CheckAuthOk(r, u) ==
    /\ r \in pending /\ r.op = "checkAuth"
    /\ RoomToConnect(u)
    /\ Receive(r)
    /\ authUser' = u
    /\ LET c == ConnectSocketResult(u, socket, sockets)
       IN  socket' = c.socket /\ sockets' = c.sockets
    /\ isCheckingAuth' = FALSE
    /\ loggedOut' = FALSE
    /\ last' = Event("checkAuthOk", u, NoMessage)
    /\ UNCHANGED <<token, isSigningUp, isLoggingIn, isUpdatingProfile,
                   onlineUsers>>
    /\ UNCHANGED serverVars

\* mutant: the catch block removes the token whatever the status
CheckAuthFailAlwaysRemoves(r, status) ==
    /\ r \in pending /\ r.op = "checkAuth"
    /\ Receive(r)
    /\ token' = Null
    /\ authUser' = Null
    /\ isCheckingAuth' = FALSE
    /\ last' = Event("checkAuthFail", status, NoMessage)
    /\ UNCHANGED <<isSigningUp, isLoggingIn, isUpdatingProfile, onlineUsers,
                   socket, sockets, loggedOut>>
    /\ UNCHANGED serverVars

\* mutant: isCheckingAuth is cleared in the try block only, not in a finally
CheckAuthFailNoFinally(r, status) ==
    /\ r \in pending /\ r.op = "checkAuth"
    /\ Receive(r)
    /\ token' = IF status = "401" THEN Null ELSE token
    /\ authUser' = Null
    /\ last' = Event("checkAuthFail", status, NoMessage)
    /\ UNCHANGED <<isSigningUp, isLoggingIn, isUpdatingProfile, isCheckingAuth,
                   onlineUsers, socket, sockets, loggedOut>>
    /\ UNCHANGED serverVars

\* mutant: the catch block never removes the token
CheckAuthFailKeepsToken(r, status) ==
    /\ r \in pending /\ r.op = "checkAuth"
    /\ Receive(r)
    /\ authUser' = Null
    /\ isCheckingAuth' = FALSE
    /\ last' = Event("checkAuthFail", status, NoMessage)
    /\ UNCHANGED <<token, isSigningUp, isLoggingIn, isUpdatingProfile,
                   onlineUsers, socket, sockets, loggedOut>>
    /\ UNCHANGED serverVars

\* catch: the token is removed on 401 only; authUser null   finally: isCheckingAuth
CheckAuthFail(r, status) ==
    /\ r \in pending /\ r.op = "checkAuth"
    /\ Receive(r)
    /\ token' = IF status = "401" THEN Null ELSE token
    /\ authUser' = Null
    /\ isCheckingAuth' = FALSE
    /\ last' = Event("checkAuthFail", status, NoMessage)
    /\ UNCHANGED <<isSigningUp, isLoggingIn, isUpdatingProfile, onlineUsers,
                   socket, sockets, loggedOut>>
    /\ UNCHANGED serverVars

\* ---------------------------------------------------------------- signup

SignupCall(u) ==
    /\ Send("signup", u)
    /\ isSigningUp' = TRUE
    /\ last' = Quiet
    /\ UNCHANGED <<authUser, token, isLoggingIn, isUpdatingProfile,
                   isCheckingAuth, onlineUsers, socket, sockets, loggedOut>>
    /\ UNCHANGED serverVars

SignupOk(r) ==
    /\ r \in pending /\ r.op = "signup"
    /\ RoomToConnect(r.user)
    /\ Receive(r)
    /\ token' = r.user
    /\ authUser' = r.user
    /\ LET c == ConnectSocketResult(r.user, socket, sockets)
       IN  socket' = c.socket /\ sockets' = c.sockets
    /\ isSigningUp' = FALSE
    /\ loggedOut' = FALSE
    /\ last' = Event("signupOk", r.user, "Account created successfully")
    /\ UNCHANGED <<isLoggingIn, isUpdatingProfile, isCheckingAuth, onlineUsers>>
    /\ UNCHANGED serverVars

\* mutant: isSigningUp is cleared in the try block only, not in a finally
SignupFailKeepsBusy(r, msg) ==
    /\ r \in pending /\ r.op = "signup"
    /\ Receive(r)
    /\ last' = Event("signupFail", msg, ErrorMessage(msg, "Signup failed"))
    /\ UNCHANGED <<authUser, token, isSigningUp, isLoggingIn, isUpdatingProfile,
                   isCheckingAuth, onlineUsers, socket, sockets, loggedOut>>
    /\ UNCHANGED serverVars

\* catch: a toast   finally: isSigningUp
SignupFail(r, msg) ==
    /\ r \in pending /\ r.op = "signup"
    /\ Receive(r)
    /\ isSigningUp' = FALSE
    /\ last' = Event("signupFail", msg, ErrorMessage(msg, "Signup failed"))
    /\ UNCHANGED <<authUser, token, isLoggingIn, isUpdatingProfile,
                   isCheckingAuth, onlineUsers, socket, sockets, loggedOut>>
    /\ UNCHANGED serverVars

\* ----------------------------------------------------------------- login

LoginCall(u) ==
    /\ Send("login", u)
    /\ isLoggingIn' = TRUE
    /\ last' = Quiet
    /\ UNCHANGED <<authUser, token, isSigningUp, isUpdatingProfile,
                   isCheckingAuth, onlineUsers, socket, sockets, loggedOut>>
    /\ UNCHANGED serverVars

LoginOk(r) ==
    /\ r \in pending /\ r.op = "login"
    /\ RoomToConnect(r.user)
    /\ Receive(r)
    /\ token' = r.user
    /\ authUser' = r.user
    /\ LET c == ConnectSocketResult(r.user, socket, sockets)
       IN  socket' = c.socket /\ sockets' = c.sockets
    /\ isLoggingIn' = FALSE
    /\ loggedOut' = FALSE
    /\ last' = Event("loginOk", r.user, "Logged in successfully")
    /\ UNCHANGED <<isSigningUp, isUpdatingProfile, isCheckingAuth, onlineUsers>>
    /\ UNCHANGED serverVars

\* mutant: the catch block of login clears the session, as checkAuth's does
LoginFailClearsSession(r, msg) ==
    /\ r \in pending /\ r.op = "login"
    /\ Receive(r)
    /\ authUser' = Null
    /\ isLoggingIn' = FALSE
    /\ last' = Event("loginFail", msg, ErrorMessage(msg, "Login failed"))
    /\ UNCHANGED <<token, isSigningUp, isUpdatingProfile, isCheckingAuth,
                   onlineUsers, socket, sockets, loggedOut>>
    /\ UNCHANGED serverVars

\* catch: a toast   finally: isLoggingIn
LoginFail(r, msg) ==
    /\ r \in pending /\ r.op = "login"
    /\ Receive(r)
    /\ isLoggingIn' = FALSE
    /\ last' = Event("loginFail", msg, ErrorMessage(msg, "Login failed"))
    /\ UNCHANGED <<authUser, token, isSigningUp, isUpdatingProfile,
                   isCheckingAuth, onlineUsers, socket, sockets, loggedOut>>
    /\ UNCHANGED serverVars

\* ---------------------------------------------------------------- logout

LogoutCall ==
    /\ Send("logout", Null)
    /\ last' = Quiet
    /\ UNCHANGED <<storeVars, loggedOut>>
    /\ UNCHANGED serverVars

\* try: removeItem("token"); set({authUser: null}); disconnectSocket()
LogoutOk(r) ==
    /\ r \in pending /\ r.op = "logout"
    /\ pending' = {[q EXCEPT !.stale = TRUE] : q \in pending \ {r}}
    /\ token' = Null
    /\ authUser' = Null
    /\ sockets' = DisconnectSocketResult(socket, sockets)
    /\ loggedOut' = TRUE
    /\ last' = Event("logoutOk", Null, "Logged out successfully")
    /\ UNCHANGED <<isSigningUp, isLoggingIn, isUpdatingProfile, isCheckingAuth,
                   onlineUsers, socket>>
    /\ UNCHANGED serverVars

\* catch: a toast, nothing else
LogoutFail(r, msg) ==
    /\ r \in pending /\ r.op = "logout"
    /\ Receive(r)
    /\ last' = Event("logoutFail", msg, ErrorMessage(msg, "Logout failed"))
    /\ UNCHANGED <<storeVars, loggedOut>>
    /\ UNCHANGED serverVars

\* --------------------------------------------------------- updateProfile

\* called with a session; the server answers with the profile of the
\* identity the request was sent for
UpdateProfileCall ==
    /\ authUser # Null
    /\ Send("updateProfile", authUser)
    /\ isUpdatingProfile' = TRUE
    /\ last' = Quiet
    /\ UNCHANGED <<authUser, token, isSigningUp, isLoggingIn, isCheckingAuth,
                   onlineUsers, socket, sockets, loggedOut>>
    /\ UNCHANGED serverVars

UpdateProfileOk(r) ==
    /\ r \in pending /\ r.op = "updateProfile" /\ r.user # Null
    /\ Receive(r)
    /\ authUser' = r.user
    /\ isUpdatingProfile' = FALSE
    /\ last' = Event("updateProfileOk", r.user, "Profile updated successfully")
    /\ UNCHANGED <<token, isSigningUp, isLoggingIn, isCheckingAuth,
                   onlineUsers, socket, sockets, loggedOut>>
    /\ UNCHANGED serverVars

UpdateProfileFail(r, msg) ==
    /\ r \in pending /\ r.op = "updateProfile"
    /\ Receive(r)
    /\ isUpdatingProfile' = FALSE
    /\ last' = Event("updateProfileFail", msg, ErrorMessage(msg, "Profile update failed"))
    /\ UNCHANGED <<authUser, token, isSigningUp, isLoggingIn, isCheckingAuth,
                   onlineUsers, socket, sockets, loggedOut>>
    /\ UNCHANGED serverVars

\* ------------------------------------------- connectSocket, disconnectSocket

\* the store method called on its own
ConnectSocket ==
    /\ RoomToConnect(authUser)
    /\ LET c == ConnectSocketResult(authUser, socket, sockets)
       IN  socket' = c.socket /\ sockets' = c.sockets
    /\ last' = Event("connectSocket", authUser, NoMessage)
    /\ UNCHANGED <<authUser, token, isSigningUp, isLoggingIn, isUpdatingProfile,
                   isCheckingAuth, onlineUsers, pending,
                   loggedOut>>
    /\ UNCHANGED serverVars

DisconnectSocket ==
    /\ sockets' = DisconnectSocketResult(socket, sockets)
    /\ last' = Event("disconnectSocket", Null, NoMessage)
    /\ UNCHANGED <<authUser, token, isSigningUp, isLoggingIn, isUpdatingProfile,
                   isCheckingAuth, onlineUsers, socket, pending, loggedOut>>
    /\ UNCHANGED serverVars

\* ------------------------------------------------------ transport events

Live(i) == sockets[i].state \in {"Connecting", "Connected"}

\* "connect": the handshake is acknowledged; the handler logs
OnConnect(i) ==
    /\ sockets[i].state = "Connecting"
    /\ sockets' = [sockets EXCEPT ![i].state = "Connected"]
    /\ last' = Quiet
    /\ UNCHANGED <<authUser, token, isSigningUp, isLoggingIn, isUpdatingProfile,
                   isCheckingAuth, onlineUsers, socket, pending, loggedOut>>
    /\ UNCHANGED serverVars

\* mutant: only the store's current socket updates onlineUsers
OnGetOnlineUsersCurrentOnly(i, userIds) ==
    /\ sockets[i].state = "Connected"
    /\ onlineUsers' = IF i = socket THEN userIds ELSE onlineUsers
    /\ last' = Event("getOnlineUsers", userIds, NoMessage)
    /\ UNCHANGED <<authUser, token, isSigningUp, isLoggingIn, isUpdatingProfile,
                   isCheckingAuth, socket, sockets, pending, loggedOut>>
    /\ UNCHANGED serverVars

\* "getOnlineUsers": set({onlineUsers: userIds})
OnGetOnlineUsers(i, userIds) ==
    /\ sockets[i].state = "Connected"
    /\ onlineUsers' = userIds
    /\ last' = Event("getOnlineUsers", userIds, NoMessage)
    /\ UNCHANGED <<authUser, token, isSigningUp, isLoggingIn, isUpdatingProfile,
                   isCheckingAuth, socket, sockets, pending, loggedOut>>
    /\ UNCHANGED serverVars

\* mutant: a lost connection is taken for a lost session
OnDisconnectClearsIdentity(i) ==
    /\ sockets[i].state = "Connected"
    /\ sockets' = [sockets EXCEPT ![i].state = "Disconnected"]
    /\ authUser' = Null
    /\ last' = Quiet
    /\ UNCHANGED <<token, isSigningUp, isLoggingIn, isUpdatingProfile,
                   isCheckingAuth, onlineUsers, socket, pending, loggedOut>>
    /\ UNCHANGED serverVars

\* "disconnect": the transport or the server closed the connection; the handler logs
OnDisconnect(i) ==
    /\ sockets[i].state = "Connected"
    /\ sockets' = [sockets EXCEPT ![i].state = "Disconnected"]
    /\ last' = Quiet
    /\ UNCHANGED <<authUser, token, isSigningUp, isLoggingIn, isUpdatingProfile,
                   isCheckingAuth, onlineUsers, socket, pending, loggedOut>>
    /\ UNCHANGED serverVars

\* mutant: the handler is registered twice, so a failure sets two timers
OnConnectErrorTwice(i) ==
    /\ sockets[i].state = "Connecting"
    /\ sockets' = [sockets EXCEPT ![i].state = "Disconnected",
                                  ![i].timers = @ + 2]
    /\ last' = Event("connect_error", i, NoMessage)
    /\ UNCHANGED <<authUser, token, isSigningUp, isLoggingIn, isUpdatingProfile,
                   isCheckingAuth, onlineUsers, socket, pending, loggedOut>>
    /\ UNCHANGED serverVars

\* "connect_error": the attempt failed; setTimeout(() => socket.connect(), 5000)
OnConnectError(i) ==
    /\ sockets[i].state = "Connecting"
    /\ sockets' = [sockets EXCEPT ![i].state = "Disconnected",
                                  ![i].timers = @ + 1]
    /\ last' = Event("connect_error", i, NoMessage)
    /\ UNCHANGED <<authUser, token, isSigningUp, isLoggingIn, isUpdatingProfile,
                   isCheckingAuth, onlineUsers, socket, pending,
                   loggedOut>>
    /\ UNCHANGED serverVars

\* the timer of a connect_error fires: socket.connect()
ReconnectTimer(i) ==
    /\ sockets[i].timers > 0
    /\ sockets' = [sockets EXCEPT
                     ![i] = SocketConnect([@ EXCEPT !.timers = @ - 1])]
    /\ last' = Event("timer", i, NoMessage)
    /\ UNCHANGED <<authUser, token, isSigningUp, isLoggingIn, isUpdatingProfile,
                   isCheckingAuth, onlineUsers, socket, pending, loggedOut>>
    /\ UNCHANGED serverVars

Next ==
    \/ CheckAuthCall
    \/ \E r \in pending, u \in Users : CheckAuthOk(r, u)
    \/ \E r \in pending, st \in Statuses : CheckAuthFail(r, st)
    \/ \E u \in NewUsers : SignupCall(u)
    \/ \E r \in pending : SignupOk(r)
    \/ \E r \in pending, m \in Messages : SignupFail(r, m)
    \/ \E u \in Users : LoginCall(u)
    \/ \E r \in pending : LoginOk(r)
    \/ \E r \in pending, m \in Messages : LoginFail(r, m)
    \/ LogoutCall
    \/ \E r \in pending : LogoutOk(r)
    \/ \E r \in pending, m \in Messages : LogoutFail(r, m)
    \/ UpdateProfileCall
    \/ \E r \in pending : UpdateProfileOk(r)
    \/ \E r \in pending, m \in Messages : UpdateProfileFail(r, m)
    \/ ConnectSocket
    \/ DisconnectSocket
    \/ \E i \in DOMAIN sockets : OnConnect(i)
    \/ \E i \in DOMAIN sockets, ids \in Payloads : OnGetOnlineUsers(i, ids)
    \/ \E i \in DOMAIN sockets : OnDisconnect(i)
    \/ \E i \in DOMAIN sockets : OnConnectError(i)
    \/ \E i \in DOMAIN sockets : ReconnectTimer(i)

\* ------------------------------------------------- server presence registry
\* The registry of the server (lib/socket.js), as the design document states
\* it: one record per identity, the latest connection overwriting the record;
\* every handler runs alone on the server's event loop.

\* the identities that have a record
OnlineSet(reg) == {u \in Users : reg[u] # 0}

\* the handles of the connections that are open
OpenConns(cs) == {c \in DOMAIN cs : cs[c].open}

\* the full OnlineSet, sent to every connection that is open
Broadcast(reg, cs) == [users |-> OnlineSet(reg), to |-> OpenConns(cs)]

\* mutant: the set is read for the broadcast before the record is inserted
OnConnectionStaleBroadcast(u) ==
    /\ Len(conns) < MaxConns
    /\ conns' = Append(conns, [identity |-> u, open |-> TRUE])
    /\ registry' = [registry EXCEPT ![u] = Len(conns')]
    /\ sent' = Append(sent, Broadcast(registry, conns'))
    /\ UNCHANGED clientVars

\* on connect: a connection presents its identity; its record is inserted,
\* overwriting the identity's record if there is one; then the broadcast
OnConnection(u) ==
    /\ Len(conns) < MaxConns
    /\ conns' = Append(conns, [identity |-> u, open |-> TRUE])
    /\ registry' = [registry EXCEPT ![u] = Len(conns')]
    /\ sent' = Append(sent, Broadcast(registry', conns'))
    /\ UNCHANGED clientVars

\* mutant: the close of any connection of the identity removes its record
OnServerDisconnectAlwaysRemoves(c) ==
    /\ conns[c].open
    /\ conns' = [conns EXCEPT ![c].open = FALSE]
    /\ registry' = [registry EXCEPT ![conns[c].identity] = 0]
    /\ sent' = Append(sent, Broadcast(registry', conns'))
    /\ UNCHANGED clientVars

\* on disconnect (close, transport error or heartbeat timeout): the record
\* is removed if the closing connection is the recorded one, and then the
\* broadcast follows; otherwise the registry is left alone
OnServerDisconnect(c) ==
    /\ conns[c].open
    /\ conns' = [conns EXCEPT ![c].open = FALSE]
    /\ IF registry[conns[c].identity] = c
       THEN /\ registry' = [registry EXCEPT ![conns[c].identity] = 0]
            /\ sent' = Append(sent, Broadcast(registry', conns'))
       ELSE UNCHANGED <<registry, sent>>
    /\ UNCHANGED clientVars

ServerNext ==
    \/ \E u \in Users : OnConnection(u)
    \/ \E c \in DOMAIN conns : OnServerDisconnect(c)

\* ----------------------------------------------------------------- claims

\* the store's socket is Connecting or Connected
ManagedLive == socket # 0 /\ Live(socket)

NumPending(P, op) == Cardinality({q \in P : q.op = op})

\* a store method was called in this step: a request was sent
Called == \E q \in pending' : q \notin pending /\ ~q.stale

\* C1: at most one socket of the session is Connecting or Connected at any
\* time, whatever the sequence of connectSocket calls.
C1_AtMostOneConnection ==
    Cardinality({i \in DOMAIN sockets : Live(i)}) <= 1

\* C2: whenever logout() completes, with the server's request succeeding or
\* failing, the token is gone, authUser is null and the store's socket is
\* not live.
C2_LogoutAlwaysClears ==
    [][last'.ev \in {"logoutOk", "logoutFail"}
         => token' = Null /\ authUser' = Null /\ ~ManagedLive']_vars

\* C3: from a successful logout until the next successful authentication the
\* store's socket is Disconnected, whatever state it was in at the logout.
C3_DisconnectedAfterLogout == loggedOut => ~ManagedLive

\* C4: once disconnectSocket has been called (on its own or by logout) the
\* socket it was called on makes no further connection attempt; stated for
\* the step that follows the call, which covers a timer already scheduled.
C4_NoAttemptAfterDisconnect ==
    [][last.ev \in {"disconnectSocket", "logoutOk"} /\ socket # 0
         => ~(sockets[socket].state # "Connecting"
              /\ sockets'[socket].state = "Connecting")]_vars

\* C5: a connect_error sets exactly one timer, on the socket that failed and
\* on no other; timers are set by nothing else; the timer retries on the
\* same socket without creating one; a socket becomes Connected only from
\* its own Connecting attempt and keeps the identity it was created with.
C5_OneReconnectPerError ==
    [][/\ \A i \in DOMAIN sockets :
            /\ sockets'[i].userId = sockets[i].userId
            /\ sockets'[i].timers > sockets[i].timers
                 => last'.ev = "connect_error" /\ last'.info = i
            /\ sockets'[i].state = "Connected" /\ sockets[i].state # "Connected"
                 => sockets[i].state = "Connecting"
       /\ last'.ev = "connect_error"
            => /\ sockets[last'.info].state = "Connecting"
               /\ sockets'[last'.info].timers = sockets[last'.info].timers + 1
               /\ sockets'[last'.info].timers = 1
               /\ Len(sockets') = Len(sockets)
               /\ \A j \in DOMAIN sockets :
                    j # last'.info => sockets'[j] = sockets[j]
       /\ last'.ev = "timer"
            => /\ sockets'[last'.info].timers = sockets[last'.info].timers - 1
               /\ sockets'[last'.info].state \in {"Connecting", "Connected"}
               /\ Len(sockets') = Len(sockets)
               /\ socket' = socket
               /\ \A j \in DOMAIN sockets :
                    j # last'.info => sockets'[j] = sockets[j]]_vars

\* a timer has fired and the socket that failed is attempting again
C5_Witness ==
    /\ last.ev = "timer"
    /\ sockets[last.info].state = "Connecting"
    /\ sockets[last.info].timers = 0

\* C6: a login, signup or checkAuth response that arrives after a logout
\* completed while the request was in flight changes neither authUser nor
\* the token and opens no connection.
C6_LogoutWins ==
    [][\A r \in pending :
         r.stale /\ r.op \in {"login", "signup", "checkAuth"} /\ r \notin pending'
           => authUser' = authUser /\ token' = token
              /\ sockets' = sockets /\ socket' = socket]_vars

\* C7: a checkAuth completion removes exactly one checkAuth request and
\* leaves isCheckingAuth false, whatever the outcome; nothing else removes
\* one; once false, isCheckingAuth is never true again.
C7_CheckAuthCompletes ==
    [][/\ last'.ev \in {"checkAuthOk", "checkAuthFail"}
            => /\ NumPending(pending', "checkAuth")
                    = NumPending(pending, "checkAuth") - 1
               /\ isCheckingAuth' = FALSE
       /\ NumPending(pending', "checkAuth") < NumPending(pending, "checkAuth")
            => last'.ev \in {"checkAuthOk", "checkAuthFail"}
       /\ isCheckingAuth = FALSE => isCheckingAuth' = FALSE]_vars

\* a checkAuth has failed on a server error and the flag is cleared
C7_Witness ==
    last.ev = "checkAuthFail" /\ last.info = "500" /\ ~isCheckingAuth

\* C8: a checkAuth that fails with 401 leaves no token, authUser null and
\* isCheckingAuth false, and creates or changes no socket.
C8_CheckAuth401 ==
    [][last'.ev = "checkAuthFail" /\ last'.info = "401"
         => /\ token' = Null
            /\ authUser' = Null
            /\ isCheckingAuth' = FALSE
            /\ sockets' = sockets
            /\ socket' = socket]_vars

\* a checkAuth has just failed with 401 while a second request is in flight
C8_Witness ==
    /\ last.ev = "checkAuthFail" /\ last.info = "401"
    /\ token = Null /\ authUser = Null /\ pending # {}

\* C9: a failed signup or login, from its call to its completion, leaves
\* authUser, the token and the sockets as they were, shows the server's
\* message when there is one and the fallback otherwise, and sends no
\* request again.
C9_FailedAuthKeepsSession ==
    [][/\ last'.ev \in {"loginFail", "signupFail"}
            => /\ authUser' = authUser /\ token' = token
               /\ socket' = socket /\ sockets' = sockets
               /\ last'.toast = IF last'.info \in ServerMessages THEN last'.info
                                ELSE IF last'.ev = "loginFail" THEN "Login failed"
                                ELSE "Signup failed"
               /\ pending' \subseteq pending /\ pending' # pending
       /\ Called
            => /\ authUser' = authUser /\ token' = token
               /\ socket' = socket /\ sockets' = sockets]_vars

\* a login has failed without a server message while a session with a live
\* socket exists
C9_Witness ==
    /\ last.ev = "loginFail" /\ last.info = NoMessage
    /\ authUser # Null /\ token # Null /\ ManagedLive

\* the socket connectSocket opens for identity u
Opened(u) ==
    /\ sockets' = Append(sockets, [userId |-> u, state |-> "Connecting", timers |-> 0])
    /\ socket' = Len(sockets) + 1

\* C10: connectSocket changes nothing when authUser is null or the store's
\* socket is connected, and otherwise opens one socket for authUser; every
\* successful checkAuth, signup and login sets authUser (signup and login
\* the token too) and then connects in that way.
C10_ConnectSocket ==
    [][/\ last'.ev = "connectSocket"
            => IF authUser = Null \/ (socket # 0 /\ sockets[socket].state = "Connected")
               THEN UNCHANGED storeVars
               ELSE /\ Opened(authUser)
                    /\ UNCHANGED <<authUser, token, isSigningUp, isLoggingIn,
                                   isUpdatingProfile, isCheckingAuth, onlineUsers>>
       /\ last'.ev \in {"checkAuthOk", "signupOk", "loginOk"}
            => /\ authUser' = last'.info
               /\ last'.ev # "checkAuthOk" => token' = last'.info
               /\ IF socket # 0 /\ sockets[socket].state = "Connected"
                  THEN sockets' = sockets /\ socket' = socket
                  ELSE Opened(last'.info)]_vars

\* a login succeeded while the store's first socket was not connected, and
\* opened a second one for the new identity
C10_Witness ==
    /\ last.ev = "loginOk"
    /\ socket = 2 /\ sockets[2].userId = authUser /\ sockets[2].state = "Connecting"
    /\ token = authUser

\* the connections the transport sees closed between two socket lists
Closes(before, after) ==
    Cardinality({i \in DOMAIN before :
                   before[i].state = "Connected" /\ after[i].state # "Connected"})

\* C11: disconnectSocket closes the store's socket when it is connected and
\* changes nothing otherwise; a second call right after the first changes
\* nothing more, so the transport sees at most one close.
C11_DisconnectIdempotent ==
    [][last'.ev = "disconnectSocket"
         => /\ sockets' = IF socket # 0 /\ sockets[socket].state = "Connected"
                          THEN [sockets EXCEPT ![socket].state = "Disconnected"]
                          ELSE sockets
            /\ UNCHANGED <<authUser, token, isSigningUp, isLoggingIn,
                           isUpdatingProfile, isCheckingAuth, onlineUsers,
                           socket, pending>>
            /\ DisconnectSocketResult(socket', sockets') = sockets'
            /\ Closes(sockets, sockets')
                 + Closes(sockets', DisconnectSocketResult(socket', sockets')) <= 1]_vars

\* disconnectSocket has just closed the connected socket of a session
C11_Witness ==
    /\ last.ev = "disconnectSocket"
    /\ authUser # Null
    /\ socket # 0 /\ sockets[socket].state = "Disconnected"
    /\ sockets[socket].timers = 0

\* C12: an updateProfile completion, whatever its outcome and whatever
\* completed while it was in flight, leaves the session authenticated
\* exactly if it was, and leaves the token and the sockets alone.
C12_UpdateProfileKeepsAuth ==
    [][last'.ev \in {"updateProfileOk", "updateProfileFail"}
         => /\ (authUser' = Null) <=> (authUser = Null)
            /\ token' = token
            /\ socket' = socket /\ sockets' = sockets]_vars

\* C13: the transport's events, the timer, connectSocket, disconnectSocket
\* and the calls up to their await leave authUser and the token alone; the
\* token is written only by a successful signup or login and cleared only
\* by a successful logout or a checkAuth that failed with 401.
C13_TransportKeepsIdentity ==
    [][/\ last'.ev \in {"-", "connectSocket", "disconnectSocket",
                         "connect_error", "timer", "getOnlineUsers"}
            => authUser' = authUser /\ token' = token
       /\ token' # token /\ token' # Null
            => last'.ev \in {"loginOk", "signupOk"} /\ token' = last'.info
       /\ token' # token /\ token' = Null
            => \/ last'.ev = "logoutOk"
               \/ last'.ev = "checkAuthFail" /\ last'.info = "401"]_vars

\* a connection attempt of an authenticated session has just failed
C13_Witness ==
    /\ last.ev = "connect_error"
    /\ authUser # Null /\ token # Null
    /\ sockets[last.info].userId = authUser

\* C16: whenever a session is authenticated and the store's socket is
\* Connecting or Connected, the socket was opened for authUser.
C16_SocketIdentityIsAuthUser ==
    authUser # Null /\ ManagedLive => sockets[socket].userId = authUser

\* C17: a checkAuth that fails with anything but 401 sets authUser to null
\* and isCheckingAuth to false, keeps the token and touches no socket.
C17_CheckAuthOtherError ==
    [][last'.ev = "checkAuthFail" /\ last'.info # "401"
         => /\ authUser' = Null
            /\ isCheckingAuth' = FALSE
            /\ token' = token
            /\ sockets' = sockets /\ socket' = socket]_vars

\* a checkAuth has failed without a response and the token is still stored
C17_Witness ==
    /\ last.ev = "checkAuthFail" /\ last.info = NoMessage
    /\ token # Null /\ authUser = Null /\ ~isCheckingAuth

\* no request of the method is in flight, so its busy flag is false
BusyReleased ==
    /\ NumPending(pending, "signup") = 0 => ~isSigningUp
    /\ NumPending(pending, "login") = 0 => ~isLoggingIn
    /\ NumPending(pending, "updateProfile") = 0 => ~isUpdatingProfile

\* a busy flag is set by a call of its method and cleared by a completion
\* of its method, and by nothing else
BusyOnlyOwn ==
    /\ isSigningUp' # isSigningUp
         => IF isSigningUp' THEN NumPending(pending', "signup") > NumPending(pending, "signup")
            ELSE last'.ev \in {"signupOk", "signupFail"}
    /\ isLoggingIn' # isLoggingIn
         => IF isLoggingIn' THEN NumPending(pending', "login") > NumPending(pending, "login")
            ELSE last'.ev \in {"loginOk", "loginFail"}
    /\ isUpdatingProfile' # isUpdatingProfile
         => IF isUpdatingProfile'
            THEN NumPending(pending', "updateProfile") > NumPending(pending, "updateProfile")
            ELSE last'.ev \in {"updateProfileOk", "updateProfileFail"}

\* C18: in every state where no signup (login, updateProfile) request is in
\* flight isSigningUp (isLoggingIn, isUpdatingProfile) is false, and only
\* the method itself changes its flag.
C18_BusyFlagsReleased == []BusyReleased /\ [][BusyOnlyOwn]_vars

\* the second of two overlapping logins has failed and the flag is released
C18_Witness ==
    /\ last.ev = "loginFail"
    /\ NumPending(pending, "login") = 0 /\ ~isLoggingIn
    /\ authUser # Null /\ token = authUser

\* C19: onlineUsers is empty at the start, every getOnlineUsers message
\* delivered to any socket of the store replaces it by the payload, and
\* nothing else changes it.
C19_OnlineUsersIsLastPayload ==
    /\ onlineUsers = {}
    /\ [][/\ last'.ev = "getOnlineUsers" => onlineUsers' = last'.info
          /\ onlineUsers' # onlineUsers => last'.ev = "getOnlineUsers"]_vars

\* a presence message has arrived after the session was logged out
C19_Witness ==
    /\ last.ev = "getOnlineUsers"
    /\ onlineUsers = Users
    /\ authUser = Null /\ loggedOut

\* C14: the last broadcast always carries the registry's key set; every
\* change of the registry and every accepted connection is followed, in the
\* same handler, by exactly one broadcast, which carries the key set the
\* change produced and differs from the set before by one identity at most.
BroadcastIsCurrent ==
    sent # << >> => sent[Len(sent)].users = OnlineSet(registry)

BroadcastFollowsMutation ==
    /\ (registry' # registry \/ Len(conns') > Len(conns)) => Len(sent') = Len(sent) + 1
    /\ sent' # sent
         => /\ sent' = Append(sent, [users |-> OnlineSet(registry'),
                                      to |-> OpenConns(conns')])
            /\ Cardinality((OnlineSet(registry) \ OnlineSet(registry'))
                             \cup (OnlineSet(registry') \ OnlineSet(registry))) <= 1
            /\ registry' # registry \/ Len(conns') > Len(conns)

C14_BroadcastEqualsRegistry ==
    /\ sent = << >> /\ OnlineSet(registry) = {}
    /\ []BroadcastIsCurrent
    /\ [][BroadcastFollowsMutation]_vars

\* u1 was inserted, u2 was inserted, u1's connection closed: three
\* broadcasts, [u1], [u1, u2], [u2]
C14_Witness ==
    /\ Len(sent) = 3
    /\ sent[1].users = {"u1"} /\ sent[2].users = Users /\ sent[3].users = {"u2"}
    /\ OnlineSet(registry) = {"u2"}

\* C15: the close of a connection removes its identity's record exactly if
\* the connection is the recorded one; the close of an older connection
\* leaves the newer record and the OnlineSet as they are.
C15_StaleCloseKeepsRecord ==
    [][\A c \in DOMAIN conns :
         conns[c].open /\ ~conns'[c].open
           => LET u == conns[c].identity
              IN  /\ registry[u] = c => registry' = [registry EXCEPT ![u] = 0]
                  /\ registry[u] # c
                       => /\ registry' = registry
                          /\ registry[u] # 0 => u \in OnlineSet(registry')
                          /\ sent' = sent]_vars

\* two connections of u1; the older one has closed, the newer one is still
\* recorded and u1 is still in the last broadcast
C15_Witness ==
    /\ Len(conns) >= 2
    /\ conns[1].identity = "u1" /\ ~conns[1].open
    /\ conns[2].identity = "u1" /\ conns[2].open
    /\ registry["u1"] = 2
    /\ Len(sent) = 2 /\ "u1" \in sent[2].users

Spec == Init /\ [][Next]_vars

\* the server's registry on its own
SpecRegistry == Init /\ [][ServerNext]_vars
====
